---- MODULE Spec2Model ----
(***************************************************************************)
(* Model of the file-upload application of Django_uploadfile.py:           *)
(*   - the Document model (description, document, uploaded_at),            *)
(*   - the DocumentForm model form over (description, document),           *)
(*   - the views upload_file and file_list,                                *)
(* run by several request workers at once over one database table and one  *)
(* media storage.  form.save() is the framework's two-step save: the file  *)
(* is committed to the storage under upload_to, then the row is inserted.  *)
(***************************************************************************)
EXTENDS Integers, Sequences, FiniteSets, TLC

(* ------------------------------ bounds --------------------------------- *)
MaxBlobs == 2         \* files the storage may receive

(* -------------------------- program constants -------------------------- *)
DescriptionMaxLength == 255   \* Document.description max_length
FileNameMaxLength == 100      \* Document.document max_length (FileField default)

UploadTo == "documents/"      \* Document.document upload_to

\* request workers running views concurrently
Workers == {"w1", "w2"}

\* client filenames: "", "a", "../b", "a/", ".."
FileNames == {<<>>, <<"a">>, <<".", ".", "/", "b">>, <<"a", "/">>, <<".", ".">>}
\* uploaded contents, as byte sequences
Contents == {<<>>, <<0>>, <<1>>}
\* the instants the wall clock may show
Times == {0, 1}
\* the random suffixes the storage may draw
Suffixes == 1..(MaxBlobs - 1)

None == <<"None">>

VARIABLES
    docs,      \* the Document table: a set of rows
    nextId,    \* the table's auto-increment primary key
    media,     \* the media storage: storage name -> content
    clock,     \* the wall clock as auto_now_add read it last
    pc,        \* per worker: position in the view it runs
    request,   \* per worker: the request it serves
    instance,  \* per worker: the Document instance being saved
    response   \* per worker: the response it returned

vars == <<docs, nextId, media, clock, pc, request, instance, response>>

(* ------------------------------ requests ------------------------------- *)
NoRequest == [view |-> "none", method |-> "GET", description |-> 0,
              filename |-> <<>>, content |-> <<>>]

UploadRequests ==
    [view : {"upload_file"}, method : {"POST"},
     description : {DescriptionMaxLength}, filename : FileNames,
     content : Contents]
    \cup [view : {"upload_file"}, method : {"POST"},
          description : {DescriptionMaxLength + 1}, filename : {<<"a">>},
          content : {<<>>, <<0>>}]
    \cup {[view |-> "upload_file", method |-> "GET", description |-> 0,
           filename |-> <<>>, content |-> <<>>]}

(* ------------------------------ responses ------------------------------ *)
NoErrors == [description |-> "ok", document |-> "ok"]

NoResponse == [kind |-> "none", target |-> "", errors |-> NoErrors,
               documents |-> <<>>]

Render(template, errors, documents) ==
    [kind |-> "render", target |-> template, errors |-> errors,
     documents |-> documents]

Redirect(to) ==
    [kind |-> "redirect", target |-> to, errors |-> NoErrors,
     documents |-> <<>>]

\* an exception leaving the view: the framework answers with a server error
ServerError(exception) ==
    [kind |-> "error", target |-> exception, errors |-> NoErrors,
     documents |-> <<>>]

(* --------------------------- request parsing --------------------------- *)
\* index of the last "/" of name, 0 when there is none
RECURSIVE LastSlash(_, _)
LastSlash(name, i) ==
    IF i = 0 THEN 0
    ELSE IF name[i] = "/" THEN i
    ELSE LastSlash(name, i - 1)

\* the final path component of a client filename
BaseName(name) ==
    LET k == LastSlash(name, Len(name))
    IN  SubSeq(name, k + 1, Len(name))

\* the client filename kept whole, path and all
SanitizeFileNameWhole(name) ==
    IF name \in {<<>>, <<".">>, <<".", ".">>} THEN None ELSE name

\* request.FILES keeps an upload under the final component of its client
\* filename, and drops the upload when that component is "", "." or ".."
SanitizeFileName(name) ==
    LET base == BaseName(name)
    IN  IF base \in {<<>>, <<".">>, <<".", ".">>} THEN None ELSE base

\* request.FILES has no 'document'
NoFile == [name |-> None, content |-> <<>>, size |-> 0]

\* request.FILES.get('document') of a POST
UploadedFile(req) ==
    IF SanitizeFileName(req.filename) = None THEN NoFile
    ELSE [name |-> SanitizeFileName(req.filename), content |-> req.content,
          size |-> Len(req.content)]

(* ---------------------------- DocumentForm ----------------------------- *)
\* CharField(max_length=255, blank=True)
CleanDescription(description) ==
    IF description > DescriptionMaxLength THEN "max_length" ELSE "ok"

\* the file field with allow_empty_file set
CleanDocumentAllowEmpty(file) ==
    IF file = NoFile THEN "required"
    ELSE IF Len(file.name) > FileNameMaxLength THEN "max_length"
    ELSE IF file.name = <<>> THEN "invalid"
    ELSE "ok"

\* FileField(upload_to='documents/'): required, no empty file
CleanDocument(file) ==
    IF file = NoFile THEN "required"
    ELSE IF Len(file.name) > FileNameMaxLength THEN "max_length"
    ELSE IF file.name = <<>> THEN "invalid"
    ELSE IF file.size = 0 THEN "empty"
    ELSE "ok"

\* form.errors of DocumentForm(request.POST, request.FILES)
FormErrors(req) ==
    [description |-> CleanDescription(req.description),
     document |-> CleanDocument(UploadedFile(req))]

\* a form that is never refused
IsValidAlways(req) == TRUE

IsValid(req) == FormErrors(req) = NoErrors

(* ------------------------------- storage ------------------------------- *)
\* a storage name: upload_to, the file's name, and a random suffix
\* (0 when the plain name was free)
StorageName(name, suffix) == <<UploadTo, name, suffix>>

Exists(store, key) == key \in DOMAIN store

\* a storage that writes over the file already under the name
AvailableNamesPlain(store, name) == {StorageName(name, 0)}

\* the names storage.save may give a file called name: the plain name when
\* it is free, otherwise any free name with a random suffix
AvailableNames(store, name) ==
    IF ~Exists(store, StorageName(name, 0))
    THEN {StorageName(name, 0)}
    ELSE {StorageName(name, s) : s \in {t \in Suffixes :
                                          ~Exists(store, StorageName(name, t))}}

\* a write that never reaches the storage
StorageSaveLost(store, key, content) == store

\* a write that leaves an empty file under key
StorageSaveTruncated(store, key, content) == (key :> <<>>) @@ store

\* the storage after content was written under key
StorageSave(store, key, content) == (key :> content) @@ store

(* ------------------------------ the table ------------------------------ *)
\* a Document instance not saved yet has no primary key (0) and no file
NoInstance == [id |-> 0, description |-> 0, document |-> None,
               uploaded_at |-> 0]

\* an INSERT that also stamps every row with the new row's uploaded_at
InsertRowTouching(rows, id, inst) ==
    {[r EXCEPT !.uploaded_at = inst.uploaded_at] : r \in rows}
    \cup {[id |-> id, description |-> inst.description,
           document |-> inst.document, uploaded_at |-> inst.uploaded_at]}

\* the table after INSERT of instance, which receives primary key id
InsertRow(rows, id, inst) ==
    rows \cup {[id |-> id, description |-> inst.description,
                document |-> inst.document, uploaded_at |-> inst.uploaded_at]}

\* a result that yields its first row twice
RECURSIVE OrderingsRepeated(_)
OrderingsRepeated(rows) ==
    IF rows = {} THEN {<<>>}
    ELSE UNION {{<<r, r>> \o rest : rest \in OrderingsRepeated(rows \ {r})} :
                r \in rows}

\* the orders in which a SELECT without ORDER BY may return rows
RECURSIVE Orderings(_)
Orderings(rows) ==
    IF rows = {} THEN {<<>>}
    ELSE UNION {{<<r>> \o rest : rest \in Orderings(rows \ {r})} : r \in rows}

\* a query that misses the row inserted last
AllRowsButNewest(rows) == {r \in rows : \E q \in rows : q.id > r.id}

\* the rows Document.objects.all() selects
AllRows(rows) == rows

(* ------------------------------- initial ------------------------------- *)
Init ==
    /\ docs = {}
    /\ nextId = 1
    /\ media = <<>>
    /\ clock = 0
    /\ pc = [w \in Workers |-> "idle"]
    /\ request = [w \in Workers |-> NoRequest]
    /\ instance = [w \in Workers |-> NoInstance]
    /\ response = [w \in Workers |-> NoResponse]

(* ----------------------------- upload_file ----------------------------- *)
\* upload_file, request.method /= 'POST': an unbound form is rendered
UploadFileGet(w) ==
    /\ pc[w] = "idle"
    /\ \E req \in UploadRequests :
        /\ req.method /= "POST"
        /\ request' = [request EXCEPT ![w] = req]
    /\ response' = [response EXCEPT
                      ![w] = Render("upload_file.html", NoErrors, <<>>)]
    /\ pc' = [pc EXCEPT ![w] = "done"]
    /\ instance' = [instance EXCEPT ![w] = NoInstance]
    /\ UNCHANGED <<docs, nextId, media, clock>>

\* upload_file, POST, form.is_valid() false: the bound form is rendered
UploadFileInvalid(w) ==
    /\ pc[w] = "idle"
    /\ \E req \in UploadRequests :
        /\ req.method = "POST"
        /\ ~IsValid(req)
        /\ request' = [request EXCEPT ![w] = req]
        /\ response' = [response EXCEPT
              ![w] = Render("upload_file.html", FormErrors(req), <<>>)]
    /\ pc' = [pc EXCEPT ![w] = "done"]
    /\ instance' = [instance EXCEPT ![w] = NoInstance]
    /\ UNCHANGED <<docs, nextId, media, clock>>

\* upload_file, POST, form.is_valid() true: form.save() begins
UploadFileValid(w) ==
    /\ pc[w] = "idle"
    /\ \E req \in UploadRequests :
        /\ req.method = "POST"
        /\ IsValid(req)
        /\ request' = [request EXCEPT ![w] = req]
        /\ instance' = [instance EXCEPT
              ![w] = [id |-> 0, description |-> req.description,
                      document |-> None, uploaded_at |-> 0]]
    /\ pc' = [pc EXCEPT ![w] = "save_file"]
    /\ response' = [response EXCEPT ![w] = NoResponse]
    /\ UNCHANGED <<docs, nextId, media, clock>>

\* the values the wall clock may show when it is read next
Now(last) == {t \in Times : last <= t}

\* form.save(), first step: the file is written to the storage under a
\* free name and auto_now_add reads the clock
SaveFile(w) ==
    /\ pc[w] = "save_file"
    /\ Cardinality(DOMAIN media) < MaxBlobs
    /\ \E key \in AvailableNames(media, UploadedFile(request[w]).name),
          now \in Now(clock) :
        /\ media' = StorageSave(media, key, request[w].content)
        /\ instance' = [instance EXCEPT
              ![w] = [@ EXCEPT !.document = key, !.uploaded_at = now]]
        /\ clock' = now
    /\ pc' = [pc EXCEPT ![w] = "insert"]
    /\ UNCHANGED <<docs, nextId, request, response>>

\* form.save(), first step, when the storage cannot write the file
SaveFileFails(w) ==
    /\ pc[w] = "save_file"
    /\ response' = [response EXCEPT ![w] = ServerError("OSError")]
    /\ pc' = [pc EXCEPT ![w] = "done"]
    /\ UNCHANGED <<docs, nextId, media, clock, request, instance>>

\* form.save(), second step: the row is inserted; then redirect('file_list')
InsertDocument(w) ==
    /\ pc[w] = "insert"
    /\ docs' = InsertRow(docs, nextId, instance[w])
    /\ nextId' = nextId + 1
    /\ instance' = [instance EXCEPT ![w] = [@ EXCEPT !.id = nextId]]
    /\ response' = [response EXCEPT ![w] = Redirect("file_list")]
    /\ pc' = [pc EXCEPT ![w] = "done"]
    /\ UNCHANGED <<media, clock, request>>

\* form.save(), second step, when the database rejects the INSERT
InsertDocumentFails(w) ==
    /\ pc[w] = "insert"
    /\ response' = [response EXCEPT ![w] = ServerError("DatabaseError")]
    /\ pc' = [pc EXCEPT ![w] = "done"]
    /\ UNCHANGED <<docs, nextId, media, clock, request, instance>>

(* ------------------------------ file_list ------------------------------ *)
FileListRequest == [view |-> "file_list", method |-> "GET", description |-> 0,
                    filename |-> <<>>, content |-> <<>>]

\* file_list: Document.objects.all() builds the query without running it
FileListQuery(w) ==
    /\ pc[w] = "idle"
    /\ request' = [request EXCEPT ![w] = FileListRequest]
    /\ response' = [response EXCEPT ![w] = NoResponse]
    /\ instance' = [instance EXCEPT ![w] = NoInstance]
    /\ pc' = [pc EXCEPT ![w] = "query"]
    /\ UNCHANGED <<docs, nextId, media, clock>>

\* file_list: render iterates the query, which runs one SELECT
FileListRender(w) ==
    /\ pc[w] = "query"
    /\ \E documents \in Orderings(AllRows(docs)) :
        response' = [response EXCEPT
            ![w] = Render("file_list.html", NoErrors, documents)]
    /\ pc' = [pc EXCEPT ![w] = "done"]
    /\ UNCHANGED <<docs, nextId, media, clock, request, instance>>

(* ------------------------------ the rest ------------------------------- *)
\* the worker is free for the next request
Finish(w) ==
    /\ pc[w] = "done"
    /\ pc' = [pc EXCEPT ![w] = "idle"]
    /\ request' = [request EXCEPT ![w] = NoRequest]
    /\ instance' = [instance EXCEPT ![w] = NoInstance]
    /\ response' = [response EXCEPT ![w] = NoResponse]
    /\ UNCHANGED <<docs, nextId, media, clock>>

Next ==
    \/ \E w \in Workers : UploadFileGet(w)
    \/ \E w \in Workers : UploadFileInvalid(w)
    \/ \E w \in Workers : UploadFileValid(w)
    \/ \E w \in Workers : SaveFile(w)
    \/ \E w \in Workers : SaveFileFails(w)
    \/ \E w \in Workers : InsertDocument(w)
    \/ \E w \in Workers : InsertDocumentFails(w)
    \/ \E w \in Workers : FileListQuery(w)
    \/ \E w \in Workers : FileListRender(w)
    \/ \E w \in Workers : Finish(w)

Spec == Init /\ [][Next]_vars

(* ------------------------- notions of the claims ----------------------- *)
Range(seq) == {seq[i] : i \in 1..Len(seq)}

\* worker w serves a POST to upload_file
Posting(w) == request[w].view = "upload_file" /\ request[w].method = "POST"

\* worker w has written the file of its upload to the storage
Stored(w) == Posting(w) /\ instance[w].document /= None

\* worker w answered its upload with the redirect: the ingest succeeded
Ingested(w) == Posting(w) /\ pc[w] = "done" /\ response[w].kind = "redirect"

\* worker w answered a file_list request
Listed(w) == request[w].view = "file_list" /\ pc[w] = "done"

\* resolve: the content the storage holds for the row of primary key id
Resolve(id) == LET r == CHOOSE r \in docs : r.id = id IN media[r.document]

\* newest first by uploaded_at, rows of equal uploaded_at by descending id
NewestFirst(seq) ==
    \A i, j \in 1..Len(seq) :
        i < j => \/ seq[i].uploaded_at > seq[j].uploaded_at
                 \/ /\ seq[i].uploaded_at = seq[j].uploaded_at
                    /\ seq[i].id > seq[j].id

(* -------------------------------- C1 ----------------------------------- *)
\* C1: in every reachable state, also after uploads that failed part-way,
\* the storage holds a file under the storage name of every Document row.
C1_NoDanglingRecord == \A r \in docs : Exists(media, r.document)

\* a row exists beside an upload that failed after its file was written
C1_Witness ==
    /\ docs /= {}
    /\ \E w \in Workers : pc[w] = "done" /\ response[w].kind = "error"
                          /\ Stored(w)

(* -------------------------------- C2 ----------------------------------- *)
\* C2: after a successful upload, resolving the primary key it returned
\* yields the content that was submitted, and goes on doing so while other
\* workers upload, also under the same filename.
C2_RoundTrip ==
    \A w \in Workers :
        Ingested(w) =>
            /\ \E r \in docs : r.id = instance[w].id
            /\ Resolve(instance[w].id) = request[w].content

\* a later row with the same file name and another content exists
C2_Witness ==
    \E w \in Workers : \E r \in docs :
        /\ Ingested(w)
        /\ r.id > instance[w].id
        /\ r.document[2] = instance[w].document[2]
        /\ media[r.document] /= request[w].content

(* -------------------------------- C3 ----------------------------------- *)
\* the rows have pairwise distinct primary keys and storage names
DistinctRows ==
    \A r, q \in docs : (r.id = q.id \/ r.document = q.document) => r = q

\* uploads in flight hold pairwise distinct storage names, and each name
\* still holds the content its upload wrote
NoCollision ==
    /\ \A w, v \in Workers :
        (w /= v /\ Stored(w) /\ Stored(v))
            => instance[w].document /= instance[v].document
    /\ \A w \in Workers :
        Stored(w) => media[instance[w].document] = request[w].content

C4_Compensated ==
    \A w \in Workers :
        (Stored(w) /\ pc[w] = "done" /\ response[w].kind = "error")
            => ~Exists(media, instance[w].document)

(* -------------------------------- C5 ----------------------------------- *)
\* C5: a POST whose file has a name and size 0 is answered with the form
\* and the document field's error "empty" (the empty-payload error), and
\* the table and the storage are after the call what they were before it.
C5_Step(w) ==
    ( /\ pc[w] = "idle" /\ pc'[w] /= "idle"
      /\ request'[w].view = "upload_file" /\ request'[w].method = "POST"
      /\ SanitizeFileName(request'[w].filename) /= None
      /\ Len(request'[w].content) = 0 )
    => /\ pc'[w] = "done"
       /\ response'[w].kind = "render"
       /\ response'[w].target = "upload_file.html"
       /\ response'[w].errors.document = "empty"
       /\ docs' = docs /\ media' = media /\ nextId' = nextId

C5_EmptyPayload == [][\A w \in Workers : C5_Step(w)]_vars

\* an empty file was refused while the table held a row
C5_Witness ==
    \E w \in Workers :
        /\ Posting(w) /\ pc[w] = "done"
        /\ Len(request[w].content) = 0
        /\ response[w].errors.document = "empty"
        /\ docs /= {}

C6_Step(w) ==
    LET req == request'[w]
    IN  ( /\ pc[w] = "idle" /\ pc'[w] /= "idle"
          /\ req.view = "upload_file" /\ req.method = "POST" )
        => /\ BaseName(req.filename) \in {<<>>, <<".">>, <<".", ".">>}
              => /\ pc'[w] = "done"
                 /\ response'[w].kind = "render"
                 /\ response'[w].errors.document = "required"
                 /\ docs' = docs /\ media' = media /\ nextId' = nextId
           /\ ( /\ BaseName(req.filename) \notin {<<>>, <<".">>, <<".", ".">>}
                /\ Len(req.content) > 0
                /\ req.description <= DescriptionMaxLength )
              => pc'[w] = "save_file"

C8_Step(w) ==
    (pc[w] = "query" /\ pc'[w] = "done")
    => /\ Range(response'[w].documents) = docs
       /\ Len(response'[w].documents) = Cardinality(docs)
       /\ \A i, j \in 1..Len(response'[w].documents) :
            response'[w].documents[i].id = response'[w].documents[j].id
                => i = j

C8_Snapshot == [][\A w \in Workers : C8_Step(w)]_vars

\* a listing with a row, returned while another upload had written its
\* file and not yet inserted its row
C8_Witness ==
    \E w, v \in Workers :
        /\ Listed(w)
        /\ Len(response[w].documents) >= 1
        /\ Posting(v) /\ pc[v] = "insert"

(* -------------------------------- C9 ----------------------------------- *)
\* C9: a row enters the table only as the last step of an upload whose
\* file is in the storage, and no step of upload_file or file_list removes
\* a row or changes its id, storage key or uploaded_at.
C9_Step ==
    /\ docs \subseteq docs'
    /\ \A r \in docs' \ docs :
        /\ \A q \in docs : q.id /= r.id
        /\ Exists(media, r.document)
        /\ \E w \in Workers :
            /\ pc[w] = "insert" /\ pc'[w] = "done"
            /\ r.document = instance[w].document
            /\ r.uploaded_at = instance[w].uploaded_at
    /\ Cardinality(docs' \ docs) <= 1

C9_AppendOnly == [][C9_Step]_vars

\* the table holds two rows with different uploaded_at
C9_Witness ==
    \E r, q \in docs : r.id < q.id /\ r.uploaded_at < q.uploaded_at

(* -------------------------------- C10 ---------------------------------- *)
\* C10 as stated: every POST with a valid form ends with the redirect to
\* file_list, one row added.
C10_Original ==
    \A w \in Workers :
        (Posting(w) /\ pc[w] = "done" /\ FormErrors(request[w]) = NoErrors)
            => /\ response[w].kind = "redirect"
               /\ \E r \in docs : r.id = instance[w].id

\* C10 amended: upload_file changes the table or the storage only on a POST
\* whose form validates; any other request to it leaves both unchanged and
\* is answered with the upload form; a POST with a valid form whose
\* form.save() completes adds exactly one row and is answered with the
\* redirect to file_list, and one whose form.save() raises adds no row;
\* file_list changes neither the table nor the storage.
C10_Step(w) ==
    LET req == request'[w]
    IN  /\ ( /\ pc[w] = "idle" /\ pc'[w] /= "idle"
             /\ req.view = "upload_file"
             /\ req.method /= "POST" \/ FormErrors(req) /= NoErrors )
           => /\ pc'[w] = "done"
              /\ response'[w].kind = "render"
              /\ response'[w].target = "upload_file.html"
              /\ docs' = docs /\ media' = media
        /\ (pc[w] /= "done" /\ pc'[w] = "done"
              /\ response'[w].kind = "redirect")
           => /\ Posting(w) /\ FormErrors(request[w]) = NoErrors
              /\ response'[w].target = "file_list"
              /\ Cardinality(docs' \ docs) = 1 /\ docs \subseteq docs'
        /\ (pc[w] /= "done" /\ pc'[w] = "done"
              /\ response'[w].kind = "error")
           => docs' = docs
        /\ (pc[w] /= pc'[w] /\ req.view = "file_list")
           => docs' = docs /\ media' = media

C10_Frame ==
    [][ /\ \A w \in Workers : C10_Step(w)
        /\ (docs' /= docs \/ media' /= media)
           => \E w \in Workers :
                /\ pc[w] /= pc'[w]
                /\ Posting(w) /\ FormErrors(request[w]) = NoErrors ]_vars

\* a POST with a valid form ended in a database error, its file written
C10_Witness ==
    \E w \in Workers :
        /\ Posting(w) /\ pc[w] = "done"
        /\ FormErrors(request[w]) = NoErrors
        /\ response[w].kind = "error"
        /\ response[w].target = "DatabaseError"
        /\ Exists(media, instance[w].document)

====
